---- MODULE Spec2Model ----
(***************************************************************************)
(* A state-machine model of lionagi's call utilities, tool invocation and  *)
(* directive engine:                                                       *)
(*   - tcall / rcall     (lionagi/libs/async_utils.py)                     *)
(*   - bcall over alcall (lionagi/libs/async_utils.py)                     *)
(*   - FunctionCalling   (lionagi/operatives/action/function_calling.py)   *)
(*   - action dispatcher, chat turn, directive loop, directive turn        *)
(*                       (lionagi/core/unit/unit_mixin.py,                 *)
(*                        lionagi/core/directive/base.py)                  *)
(*   - process_tools     (lionagi/core/unit/util.py)                       *)
(* Each subsystem has its own specification (Spec, SpecBatch, SpecTool,    *)
(* SpecDispatch, SpecChat, SpecDirect, SpecTools, SpecTurn); the variables *)
(* of the other subsystems stay at their idle values.                      *)
(***************************************************************************)
EXTENDS Integers, Sequences, FiniteSets, TLC

VARIABLES
    \* ---- tcall / rcall ----
    cfg,                  \* the keyword arguments of the call under study
    pc,                   \* "run" while the call is executing, "done" after
    attempt,              \* rcall's loop variable
    current_retry_delay,  \* rcall's local of that name
    result,               \* what the call returned or raised
    log,                  \* history: sleeps, calls of func, calls of handlers
    \* ---- bcall / alcall ----
    bcfg, binput, opf, blist, bi, bpc, taskState, yielded,
    \* ---- FunctionCalling ----
    tool, given, arguments, fcState, execution, ran, invokes, escaped, last,
    \* ---- action dispatcher ----
    dcfg, dpc, convlog, tasks, finished, returned, dresult,
    \* ---- chat turn ----
    ccfg, cpc, messages, completion, num_tasks_succeeded, num_tasks_failed,
    \* ---- directive loop ----
    xcfg, stack, cycles, followups, xlast, completed,
    \* ---- process_tools ----
    tool_obj, tm_registry, pt_calls, pt_raised, pt_before, pt_first,
    \* ---- one directive turn ----
    tcfg, tpc, branches, tform, acted

rvars == <<cfg, pc, attempt, current_retry_delay, result, log>>
bvars == <<bcfg, binput, opf, blist, bi, bpc, taskState, yielded>>
fvars == <<tool, given, arguments, fcState, execution, ran, invokes, escaped, last>>
dvars == <<dcfg, dpc, convlog, tasks, finished, returned, dresult>>
cvars == <<ccfg, cpc, messages, completion, num_tasks_succeeded, num_tasks_failed>>
xvars == <<xcfg, stack, cycles, followups, xlast, completed>>
pvars == <<tool_obj, tm_registry, pt_calls, pt_raised, pt_before, pt_first>>
tvars == <<tcfg, tpc, branches, tform, acted>>
vars == <<rvars, bvars, fvars, dvars, cvars, xvars, pvars, tvars>>

(***************************************************************************)
(* Bounds                                                                  *)
(***************************************************************************)
MaxRetries == 2
MaxDelay == 1
MaxRetryDelay == 2
MaxBackoff == 2

(***************************************************************************)
(* Values                                                                  *)
(***************************************************************************)
\* lionagi.utils.UNDEFINED: the sentinel instance meaning "no default given".
UNDEFINED == "UNDEFINED"
\* The object written `...` in Python.
Ellipsis == "Ellipsis"
None == "None"
NoExc == "-"

\* Exception types func may raise (type(e) is matched exactly by error_map).
ExcTypes == {"ValueError", "TimeoutError"}

\* What one call of func does: return in time, run longer than any timeout,
\* or raise.
OpOutcomes == {"ok", "slow"} \cup ExcTypes

\* `(result, duration) if timing else result`
Returned_ignoring_timing(v, timing) ==
    [kind |-> "return", value |-> v, timed |-> FALSE, exc |-> NoExc, attempts |-> 0,
     via |-> "attempt"]

Returned(v, timing) ==
    [kind |-> "return", value |-> v, timed |-> timing, exc |-> NoExc, attempts |-> 0,
     via |-> "attempt"]

Raised(e, n) ==
    [kind |-> "raise", value |-> None, timed |-> FALSE, exc |-> e, attempts |-> n,
     via |-> "attempt"]

\* rcall's `return default` after the last attempt raised.
ExhaustedReturn(default) ==
    [kind |-> "return", value |-> default, timed |-> FALSE, exc |-> NoExc,
     attempts |-> 0, via |-> "exhausted"]

Ev(e, x, a) == [ev |-> e, exc |-> x, amt |-> a]

(***************************************************************************)
(* tcall: one execution of func with delay, timeout, default and error_map *)
(* oc is what func does on this call, hraise whether the mapped handler    *)
(* itself raises.  The value is the pair of tcall's outcome and the events *)
(* it produced ("handler" is a call of the mapped handler that returned,   *)
(* "handler_raised" one that raised).                                      *)
(***************************************************************************)
tcall_exc(timeout, oc) ==
    IF oc \in ExcTypes THEN oc
    ELSE IF oc = "slow" /\ timeout # None THEN "TimeoutError"
    ELSE NoExc

\* func raised an exception whose type is a key of error_map: the handler is
\* called; if it returns, tcall returns None.
tcall_on_mapped_fallthrough(e, timing, default, hraise, pre) ==
    IF hraise
    THEN [res |-> Raised("HandlerError", 0),
          evs |-> pre \o <<Ev("handler_raised", e, 0)>>]
    ELSE [res |-> IF default # UNDEFINED THEN Returned(default, timing)
                  ELSE Raised("RuntimeError", 0),
          evs |-> pre \o <<Ev("handler", e, 0)>>]

tcall_on_mapped(e, timing, default, hraise, pre) ==
    IF hraise
    THEN [res |-> Raised("HandlerError", 0),
          evs |-> pre \o <<Ev("handler_raised", e, 0)>>]
    ELSE [res |-> Returned(None, timing),
          evs |-> pre \o <<Ev("handler", e, 0)>>]

tcall(delay, timing, timeout, default, error_map, oc, hraise) ==
    LET e == tcall_exc(timeout, oc)
        pre == <<Ev("sleep_delay", NoExc, delay), Ev("call", oc, 0)>>
    IN  IF e = NoExc THEN
            [res |-> Returned("value", timing), evs |-> pre]
        ELSE IF e = "TimeoutError" THEN
            IF default # UNDEFINED
            THEN [res |-> Returned(default, timing), evs |-> pre]
            ELSE [res |-> Raised("TimeoutError", 0), evs |-> pre]
        ELSE IF e \in error_map THEN
            tcall_on_mapped(e, timing, default, hraise, pre)
        ELSE IF default # UNDEFINED
            THEN [res |-> Returned(default, timing), evs |-> pre]
            ELSE [res |-> Raised("RuntimeError", 0), evs |-> pre]

(***************************************************************************)
(* Configurations                                                          *)
(***************************************************************************)
Configs ==
    [mode : {"tcall", "rcall"},
     num_retries : 0..MaxRetries,
     delay : 0..MaxDelay,
     retry_delay : 0..MaxRetryDelay,
     backoff_factor : 1..MaxBackoff,
     default : {UNDEFINED, "dflt"},
     timeout : {None, "1s"},
     timing : BOOLEAN,
     error_map : SUBSET ExcTypes]

NoResult ==
    [kind |-> "none", value |-> None, timed |-> FALSE, exc |-> NoExc, attempts |-> 0,
     via |-> "none"]

RInit ==
    /\ cfg \in Configs
    /\ pc = "run"
    /\ attempt = 0
    /\ current_retry_delay = cfg.retry_delay
    /\ result = NoResult
    /\ log = <<>>

RIdle ==
    /\ cfg = [mode |-> "idle"]
    /\ pc = "done"
    /\ attempt = 0
    /\ current_retry_delay = 0
    /\ result = NoResult
    /\ log = <<>>

\* No FunctionCalling under study.
FIdle ==
    /\ tool = [mode |-> "idle"]
    /\ given = {}
    /\ arguments = {}
    /\ fcState = "none"
    /\ execution = [status |-> "PENDING"]
    /\ ran = <<>>
    /\ invokes = 0
    /\ escaped = "none"
    /\ last = <<>>

\* No dispatch under study.
DIdle ==
    /\ dcfg = [mode |-> "idle"]
    /\ dpc = "idle"
    /\ convlog = <<>>
    /\ tasks = <<>>
    /\ finished = <<>>
    /\ returned = <<>>
    /\ dresult = [kind |-> "pending"]

\* No chat turn under study.
CIdle ==
    /\ ccfg = [mode |-> "idle"]
    /\ cpc = "idle"
    /\ messages = <<>>
    /\ completion = [mode |-> "idle"]
    /\ num_tasks_succeeded = 0
    /\ num_tasks_failed = 0

\* No directive call under study.
XIdle ==
    /\ xcfg = [mode |-> "idle"]
    /\ stack = <<>>
    /\ cycles = 0
    /\ followups = 0
    /\ xlast = [kind |-> "none"]
    /\ completed = <<>>

\* No call of process_tools under study.
PIdle ==
    /\ tool_obj = [kind |-> "idle"]
    /\ tm_registry = <<>>
    /\ pt_calls = 0
    /\ pt_raised = FALSE
    /\ pt_before = <<>>
    /\ pt_first = <<>>

\* No directive turn under study.
TIdle ==
    /\ tcfg = [mode |-> "idle"]
    /\ tpc = "idle"
    /\ branches = <<>>
    /\ tform = [none |-> TRUE]
    /\ acted = FALSE

\* A direct call of tcall with the caller's own default.
TCall ==
    /\ cfg.mode = "tcall"
    /\ pc = "run"
    /\ \E oc \in OpOutcomes, hraise \in BOOLEAN :
         LET r == tcall(cfg.delay, cfg.timing, cfg.timeout, cfg.default,
                        cfg.error_map, oc, hraise)
         IN  /\ result' = r.res
             /\ log' = log \o r.evs
    /\ pc' = "done"
    /\ UNCHANGED <<cfg, attempt, current_retry_delay>>
    /\ UNCHANGED <<bvars, fvars, dvars, cvars, xvars, pvars, tvars>>

\* The default rcall hands to tcall.
rcall_inner_default == Ellipsis

\* One iteration of rcall's loop: the tcall, then either the return or the
\* except branch.
RCallAttempt ==
    /\ cfg.mode = "rcall"
    /\ pc = "run"
    /\ attempt <= cfg.num_retries
    /\ \E oc \in OpOutcomes, hraise \in BOOLEAN :
         LET r == tcall(IF attempt = 0 THEN cfg.delay ELSE 0, cfg.timing,
                        cfg.timeout, rcall_inner_default, cfg.error_map,
                        oc, hraise)
         IN  IF r.res.kind = "return" THEN
                 /\ result' = r.res
                 /\ log' = log \o r.evs
                 /\ pc' = "done"
                 /\ UNCHANGED <<attempt, current_retry_delay>>
             ELSE IF attempt < cfg.num_retries THEN
                 /\ log' = log \o r.evs
                            \o <<Ev("sleep_retry", NoExc, current_retry_delay)>>
                 /\ current_retry_delay' = current_retry_delay * cfg.backoff_factor
                 /\ attempt' = attempt + 1
                 /\ UNCHANGED <<result, pc>>
             ELSE
                 /\ log' = log \o r.evs
                 /\ result' = IF cfg.default # UNDEFINED
                              THEN ExhaustedReturn(cfg.default)
                              ELSE Raised("RuntimeError", cfg.num_retries + 1)
                 /\ pc' = "done"
                 /\ UNCHANGED <<attempt, current_retry_delay>>
    /\ UNCHANGED cfg
    /\ UNCHANGED <<bvars, fvars, dvars, cvars, xvars, pvars, tvars>>

(***************************************************************************)
(* History operators over log                                              *)
(***************************************************************************)
CallIdx == {i \in DOMAIN log : log[i].ev = "call"}
NumCalls == Cardinality(CallIdx)
HandlerIdx == {i \in DOMAIN log : log[i].ev \in {"handler", "handler_raised"}}
RetrySleepIdx == {i \in DOMAIN log : log[i].ev = "sleep_retry"}
DelaySleepIdx == {i \in DOMAIN log : log[i].ev = "sleep_delay"}

\* The exception the call logged at i ended with (NoExc when it returned).
ExcAt(i) == tcall_exc(cfg.timeout, log[i].exc)

\* The call at i raised an exception that error_map does not map.
UnmappedFailAt(i) == log[i].exc \in ExcTypes /\ log[i].exc \notin cfg.error_map

\* The call at i is the k-th call of func in this run.
CallNo(i) == Cardinality({j \in CallIdx : j <= i})

RECURSIVE Pow(_, _)
Pow(b, n) == IF n = 0 THEN 1 ELSE b * Pow(b, n - 1)

RDone == cfg.mode = "rcall" /\ pc = "done"

(***************************************************************************)
(* C1. rcall with num_retries = n on a func that raises an unmapped        *)
(* exception on every call: func is called exactly n + 1 times, and then   *)
(* the configured default is returned, or, with no default, the            *)
(* retries-exhausted RuntimeError naming n + 1 attempts is raised.         *)
(***************************************************************************)
C1_AlwaysFailsExhausts ==
    (RDone /\ \A i \in CallIdx : UnmappedFailAt(i)) =>
        /\ NumCalls = cfg.num_retries + 1
        /\ IF cfg.default # UNDEFINED
           THEN result.kind = "return" /\ result.value = cfg.default
           ELSE /\ result.kind = "raise"
                /\ result.exc = "RuntimeError"
                /\ result.attempts = cfg.num_retries + 1

(***************************************************************************)
(* C2. A func that raises an unmapped exception on its first k calls       *)
(* (k <= num_retries) and then succeeds: rcall returns func's value after  *)
(* exactly k + 1 calls, not the default and not the exhausted error.       *)
(* A finished run whose calls are at most num_retries unmapped failures,   *)
(* optionally followed by a success, is a run on such a func.              *)
(***************************************************************************)
FailsThenOk ==
    /\ \A i \in CallIdx : UnmappedFailAt(i) \/ log[i].exc = "ok"
    /\ \A i, j \in CallIdx : (i < j /\ log[i].exc = "ok") => FALSE
    /\ Cardinality({i \in CallIdx : UnmappedFailAt(i)}) <= cfg.num_retries

C2_FailsThenSucceeds ==
    (RDone /\ FailsThenOk) =>
        /\ \E i \in CallIdx : log[i].exc = "ok"
        /\ NumCalls = Cardinality({i \in CallIdx : UnmappedFailAt(i)}) + 1
        /\ result.kind = "return"
        /\ result.value = "value"

(***************************************************************************)
(* C3 (as stated). Whenever a call of func raises an exception whose type  *)
(* is a key of error_map, the mapped handler is called exactly once for    *)
(* that attempt, with that exception; when the handler returns, func is    *)
(* not called again, no retry sleep follows and the executor returns None. *)
(***************************************************************************)
HandledOnceAt(i) ==
    /\ i + 1 <= Len(log)
    /\ log[i + 1].ev \in {"handler", "handler_raised"}
    /\ log[i + 1].exc = log[i].exc
    /\ (i + 2 <= Len(log) => log[i + 2].ev \notin {"handler", "handler_raised"})
    /\ log[i + 1].ev = "handler" =>
         /\ i + 1 = Len(log)
         /\ pc = "done"
         /\ result.kind = "return"
         /\ result.value = None

C3_MappedHandledOnce ==
    \A i \in CallIdx :
        log[i].exc \in ExcTypes \cap cfg.error_map => HandledOnceAt(i)

(***************************************************************************)
(* C3 (amended). The same for every exception type that is a key of        *)
(* error_map other than TimeoutError: a TimeoutError, raised by func or by *)
(* the timeout, is never passed to a handler.  Handlers are called in no   *)
(* other case.                                                             *)
(***************************************************************************)
C3_MappedHandledOnceAmended ==
    /\ \A i \in CallIdx :
        log[i].exc \in (ExcTypes \cap cfg.error_map) \ {"TimeoutError"} =>
            HandledOnceAt(i)
    /\ \A j \in HandlerIdx :
        /\ j > 1
        /\ log[j - 1].ev = "call"
        /\ log[j - 1].exc = log[j].exc
        /\ log[j].exc \in cfg.error_map \ {"TimeoutError"}

C3_Witness ==
    /\ RDone
    /\ cfg.num_retries > 0
    /\ cfg.default # UNDEFINED
    /\ Len(log) = 3
    /\ log[2].ev = "call" /\ log[2].exc = "ValueError"
    /\ log[3].ev = "handler"
    /\ result.value = None

(***************************************************************************)
(* C4. An attempt that exceeds timeout is a retryable failure for rcall:   *)
(* while attempts remain func is attempted again, so a finished run whose  *)
(* last call of func timed out has used all num_retries + 1 attempts.      *)
(***************************************************************************)
LastCall == CHOOSE i \in CallIdx : \A j \in CallIdx : j <= i

C4_TimeoutIsRetried ==
    (RDone /\ CallIdx # {} /\ log[LastCall].exc = "slow" /\ cfg.timeout # None) =>
        /\ NumCalls = cfg.num_retries + 1
        /\ result.kind = "raise" \/ result.value = cfg.default

(***************************************************************************)
(* C5 (as stated). With timing=True every normal return of tcall and of    *)
(* rcall is a (result, elapsed) pair.                                      *)
(***************************************************************************)
C5_TimingAlwaysPair ==
    (pc = "done" /\ cfg.mode \in {"tcall", "rcall"} /\ cfg.timing
        /\ result.kind = "return") => result.timed

(***************************************************************************)
(* C5 (amended). With timing=True every normal return of tcall, and every  *)
(* return of rcall that comes from an attempt, is a (result, elapsed)      *)
(* pair; the default rcall returns after its last attempt raised is        *)
(* returned bare, without the elapsed time.  With timing=False no return   *)
(* is a pair.                                                              *)
(***************************************************************************)
ExhaustedDefault ==
    /\ RDone
    /\ result.kind = "return"
    /\ result.via = "exhausted"

C5_TimingPairAmended ==
    (pc = "done" /\ cfg.mode \in {"tcall", "rcall"} /\ result.kind = "return") =>
        /\ ExhaustedDefault => (~result.timed /\ result.value = cfg.default)
        /\ ~ExhaustedDefault => (result.timed <=> cfg.timing)

C5_Witness ==
    /\ cfg.timing
    /\ ExhaustedDefault
    /\ NumCalls = cfg.num_retries + 1
    /\ cfg.num_retries > 0

(***************************************************************************)
(* C6. In one rcall run the initial delay is slept exactly once, before    *)
(* the first attempt only; after the j-th failed attempt                   *)
(* (1 <= j <= num_retries) the executor sleeps                             *)
(* retry_delay * backoff_factor^(j-1) before attempt j+1; no retry sleep   *)
(* follows the final attempt.                                              *)
(***************************************************************************)
\* The attempt whose call is logged at i failed: it timed out or raised an
\* exception error_map does not handle.
FailedAttemptAt(i) ==
    /\ ExcAt(i) # NoExc
    /\ ExcAt(i) = "TimeoutError" \/ ExcAt(i) \notin cfg.error_map

C6_SleepSchedule ==
    RDone =>
        /\ \A i \in DelaySleepIdx :
             log[i].amt = (IF i = 1 THEN cfg.delay ELSE 0)
        /\ \A i \in CallIdx :
             (FailedAttemptAt(i) /\ CallNo(i) <= cfg.num_retries) =>
                 \E s \in RetrySleepIdx :
                     /\ s > i
                     /\ \A c \in CallIdx : ~(i < c /\ c < s)
                     /\ log[s].amt = cfg.retry_delay
                                     * Pow(cfg.backoff_factor, CallNo(i) - 1)
                     /\ \E c \in CallIdx : c > s
        /\ \A s \in RetrySleepIdx : \E c \in CallIdx : c > s

(***************************************************************************)
(* bcall over alcall                                                       *)
(***************************************************************************)
MaxInputLen == 3
MaxBatch == 2
MaxConcurrent == 2

\* max_concurrent=None
NoCap == 0

InputItems == {"x", "y", None}

\* A result of func: a scalar (one atom) or a list of atoms.
Scalar(v) == [list |-> FALSE, elems |-> <<v>>]
ListOf(vs) == [list |-> TRUE, elems |-> vs]

\* The functions mapped over the input.
OpFuncs ==
    { [i \in InputItems |->
          IF i = "x" THEN Scalar("a") ELSE IF i = "y" THEN Scalar("b") ELSE Scalar(None)],
      [i \in InputItems |-> Scalar("a")],
      [i \in InputItems |->
          IF i = "x" THEN ListOf(<<"a", None>>)
          ELSE IF i = "y" THEN Scalar(None) ELSE ListOf(<<"b", "a">>)] }

RECURSIVE SeqsUpTo(_, _)
SeqsUpTo(S, n) ==
    IF n = 0 THEN {<<>>}
    ELSE LET shorter == SeqsUpTo(S, n - 1)
         IN  shorter \cup {Append(q, x) : q \in shorter, x \in S}

Min(a, b) == IF a <= b THEN a ELSE b

RECURSIVE DropNulls(_)
DropNulls(q) ==
    IF q = <<>> THEN <<>>
    ELSE IF Head(q) = None THEN DropNulls(Tail(q))
    ELSE <<Head(q)>> \o DropNulls(Tail(q))

\* to_list(input_, flatten=True, dropna=True) on an input that is a flat list.
to_list_flat_dropna(q) == DropNulls(q)

\* --- post-processing of a list of results (flatten, dropna, unique) ---
RECURSIVE FlattenResults(_)
FlattenResults(rs) ==
    IF rs = <<>> THEN <<>>
    ELSE (IF Head(rs).list
          THEN [k \in 1..Len(Head(rs).elems) |-> Scalar(Head(rs).elems[k])]
          ELSE <<Head(rs)>>) \o FlattenResults(Tail(rs))

RECURSIVE DropNullResults(_)
DropNullResults(rs) ==
    IF rs = <<>> THEN <<>>
    ELSE IF Head(rs) = Scalar(None) THEN DropNullResults(Tail(rs))
    ELSE <<Head(rs)>> \o DropNullResults(Tail(rs))

RECURSIVE UniqueResults(_, _)
UniqueResults(rs, seen) ==
    IF rs = <<>> THEN <<>>
    ELSE IF Head(rs) \in seen THEN UniqueResults(Tail(rs), seen)
    ELSE <<Head(rs)>> \o UniqueResults(Tail(rs), seen \cup {Head(rs)})

PostProcess(rs, o) ==
    LET f == IF o.flatten THEN FlattenResults(rs) ELSE rs
        d == IF o.dropna THEN DropNullResults(f) ELSE f
    IN  IF o.unique THEN UniqueResults(d, {}) ELSE d

\* alcall's normalisation of its input: a flat list, nulls dropped on request.
alcall_input(q, o) == IF o.dropna THEN DropNulls(q) ELSE q

\* The value of one (non-batched) alcall over q: func on every item, results
\* in input order, then post-processed.
alcall(q, f, o) ==
    LET items == alcall_input(q, o)
    IN  PostProcess([k \in 1..Len(items) |-> f[items[k]]], o)

BConfigs ==
    [mode : {"bcall"},
     batch_size : 1..MaxBatch,
     max_concurrent : {NoCap} \cup 1..MaxConcurrent,
     flatten : BOOLEAN,
     dropna : BOOLEAN,
     unique : BOOLEAN]

\* `input_[i : i + batch_size]` as the positions (1-based) of blist it holds.
BatchIdx_short(i) == (i + 1)..Min(i + bcfg.batch_size - 1, Len(blist))

BatchIdx(i) == (i + 1)..Min(i + bcfg.batch_size, Len(blist))

\* The batch position j belongs to, as the value of the loop variable i.
BatchOf(j) == ((j - 1) \div bcfg.batch_size) * bcfg.batch_size

Running(i) == {j \in BatchIdx(i) : taskState[j] = "running"}

InFlight == {j \in DOMAIN taskState : taskState[j] = "running"}

\* `await alcall(...)` has returned: every task of the batch is finished.
AlcallReturned_not_awaited(i) == TRUE

AlcallReturned(i) == \A j \in BatchIdx(i) : taskState[j] = "done"

BInit ==
    /\ bcfg \in BConfigs
    /\ binput \in SeqsUpTo(InputItems, MaxInputLen)
    /\ opf \in OpFuncs
    /\ blist = to_list_flat_dropna(binput)
    /\ bi = 0
    /\ bpc = "start"
    /\ taskState = [j \in 1..Len(blist) |-> "idle"]
    /\ yielded = <<>>

BIdle ==
    /\ bcfg = [mode |-> "idle"]
    /\ binput = <<>>
    /\ opf = <<>>
    /\ blist = <<>>
    /\ bi = 0
    /\ bpc = "done"
    /\ taskState = <<>>
    /\ yielded = <<>>

\* The consumer asks the generator for its next group: the loop of bcall
\* advances to the next batch and alcall creates that batch's tasks, or the
\* loop ends.
BNext ==
    /\ bpc \in {"start", "suspended"}
    /\ LET i == IF bpc = "start" THEN 0 ELSE bi + bcfg.batch_size
       IN  IF i < Len(blist)
           THEN /\ bi' = i
                /\ taskState' = [j \in DOMAIN taskState |->
                                    IF j \in BatchIdx(i) THEN "waiting" ELSE taskState[j]]
                /\ bpc' = "running"
           ELSE /\ bpc' = "done"
                /\ UNCHANGED <<bi, taskState>>
    /\ UNCHANGED <<bcfg, binput, opf, blist, yielded>>
    /\ UNCHANGED <<rvars, fvars, dvars, cvars, xvars, pvars, tvars>>

\* A task of alcall acquires the semaphore of its alcall and calls func.
TaskStart(j) ==
    /\ taskState[j] = "waiting"
    /\ \/ bcfg.max_concurrent = NoCap
       \/ Cardinality(Running(BatchOf(j))) < bcfg.max_concurrent
    /\ taskState' = [taskState EXCEPT ![j] = "running"]
    /\ UNCHANGED <<bcfg, binput, opf, blist, bi, bpc, yielded>>
    /\ UNCHANGED <<rvars, fvars, dvars, cvars, xvars, pvars, tvars>>

\* func returns for item j; the task releases the semaphore.
TaskFinish(j) ==
    /\ taskState[j] = "running"
    /\ taskState' = [taskState EXCEPT ![j] = "done"]
    /\ UNCHANGED <<bcfg, binput, opf, blist, bi, bpc, yielded>>
    /\ UNCHANGED <<rvars, fvars, dvars, cvars, xvars, pvars, tvars>>

\* alcall returns the batch's results and bcall yields them.
BYield ==
    /\ bpc = "running"
    /\ AlcallReturned(bi)
    /\ LET idx == BatchIdx(bi)
           batch == [k \in 1..Cardinality(idx) |-> blist[bi + k]]
       IN  yielded' = Append(yielded, alcall(batch, opf, bcfg))
    /\ bpc' = "suspended"
    /\ UNCHANGED <<bcfg, binput, opf, blist, bi, taskState>>
    /\ UNCHANGED <<rvars, fvars, dvars, cvars, xvars, pvars, tvars>>

BatchNext ==
    \/ BNext
    \/ \E j \in DOMAIN taskState : TaskStart(j)
    \/ \E j \in DOMAIN taskState : TaskFinish(j)
    \/ BYield

InitBatch == RIdle /\ BInit /\ FIdle /\ DIdle /\ CIdle /\ XIdle /\ PIdle /\ TIdle

SpecBatch == InitBatch /\ [][BatchNext]_vars

RECURSIVE Concat(_)
Concat(groups) ==
    IF groups = <<>> THEN <<>> ELSE Head(groups) \o Concat(Tail(groups))

(***************************************************************************)
(* C7. With max_concurrent = c, never more than c operations of one        *)
(* alcall/bcall invocation are in flight at once; in batch mode the bound  *)
(* holds within each batch, and operations of different batches never      *)
(* overlap.                                                                *)
(***************************************************************************)
C7_ConcurrencyCap ==
    /\ bcfg.max_concurrent # NoCap => Cardinality(InFlight) <= bcfg.max_concurrent
    /\ \A j, k \in InFlight : BatchOf(j) = BatchOf(k)

C7_Witness ==
    /\ bcfg.max_concurrent = 1
    /\ bcfg.batch_size >= 2
    /\ \E j, k \in BatchIdx(bi) : taskState[j] = "running" /\ taskState[k] = "waiting"

(***************************************************************************)
(* C8 (as stated). For every input and every batch_size >= 1, the groups   *)
(* bcall yields, concatenated in order, equal the result of one            *)
(* non-batched alcall over the same input with the same options.           *)
(***************************************************************************)
C8_ConcatEqualsAlcall ==
    bpc = "done" => Concat(yielded) = alcall(binput, opf, bcfg)

(***************************************************************************)
(* C8 (amended). The same, for every flat input without null entries and   *)
(* for options that do not ask for unique results.                         *)
(***************************************************************************)
NoNulls(q) == \A k \in DOMAIN q : q[k] # None

C8_ConcatEqualsAlcallAmended ==
    (bpc = "done" /\ NoNulls(binput) /\ ~bcfg.unique) =>
        Concat(yielded) = alcall(binput, opf, bcfg)

C8_Witness ==
    /\ bpc = "done"
    /\ NoNulls(binput)
    /\ ~bcfg.unique
    /\ bcfg.flatten
    /\ bcfg.dropna
    /\ Len(binput) = 3
    /\ Len(yielded) = 2
    /\ Len(Concat(yielded)) >= 3
    /\ Len(yielded[1]) # Len(yielded[2])

(***************************************************************************)
(* C9. bcall processes batches strictly in sequence: no operation of a     *)
(* batch is started before every operation of every earlier batch has      *)
(* finished and the earlier batches' groups have been yielded.             *)
(***************************************************************************)
C9_BatchesInSequence ==
    \A j \in DOMAIN taskState :
        taskState[j] # "idle" =>
            /\ Len(yielded) >= BatchOf(j) \div bcfg.batch_size
            /\ \A k \in DOMAIN taskState :
                 BatchOf(k) < BatchOf(j) => taskState[k] = "done"

C9_Witness ==
    /\ Len(yielded) = 1
    /\ bcfg.batch_size = 2
    /\ bcfg.max_concurrent = NoCap
    /\ \E j \in DOMAIN taskState : BatchOf(j) > 0 /\ taskState[j] = "running"

(***************************************************************************)
(* C36. bcall cuts the flattened, null-dropped input into consecutive      *)
(* chunks in input order: every chunk but the last holds batch_size items, *)
(* the last holds between 1 and batch_size, n items give                   *)
(* ceil(n / batch_size) chunks and as many result-groups, every item is in *)
(* exactly one chunk, and an empty input yields no group.                  *)
(***************************************************************************)
\* The items alcall was last given: the positions past the loop variable
\* for which a task exists.
Chunk == {j \in DOMAIN taskState : j > bi /\ taskState[j] # "idle"}

CeilDiv(n, b) == (n + b - 1) \div b

C36_ConsecutiveChunks ==
    LET n == Len(blist)
        b == bcfg.batch_size
    IN  bcfg.mode = "bcall" =>
            /\ bi % b = 0
            /\ (bpc # "start" /\ n > 0) =>
                   /\ bi < n
                   /\ Chunk = (bi + 1)..(IF bi + b < n THEN bi + b ELSE n)
                   /\ Cardinality(Chunk) \in 1..b
                   /\ bi + b < n => Cardinality(Chunk) = b
                   /\ \A j \in 1..bi : taskState[j] = "done"
            /\ bpc = "start" => Chunk = {} /\ yielded = <<>>
            /\ bpc = "running" => Len(yielded) = bi \div b
            /\ bpc = "suspended" => Len(yielded) = bi \div b + 1
            /\ bpc = "done" =>
                   /\ Len(yielded) = CeilDiv(n, b)
                   /\ \A j \in 1..n : taskState[j] = "done"
            /\ n = 0 => yielded = <<>>

C36_Witness ==
    /\ bpc = "done"
    /\ Len(blist) = 3
    /\ bcfg.batch_size = 2
    /\ Len(yielded) = 2
    /\ Chunk = {3}

(***************************************************************************)
(* FunctionCalling: construction (with its validator) and invoke           *)
(***************************************************************************)
MaxInvokes == 2

\* The names an argument dict may use as keys.
Fields == {"a", "b"}

Tools ==
    [mode : {"tool"},
     strict_func_call : BOOLEAN,
     required_fields : SUBSET Fields,
     minimum_acceptable_fields : SUBSET Fields,
     preprocessor : BOOLEAN,
     postprocessor : BOOLEAN]

\* _validate_strict_tool: TRUE when the validator returns self, FALSE when it
\* raises ValueError("arguments must match the function schema").
validate_strict_tool_swapped(t, keys) ==
    IF t.strict_func_call
    THEN keys \subseteq t.required_fields
    ELSE t.minimum_acceptable_fields \subseteq keys

validate_strict_tool(t, keys) ==
    IF t.strict_func_call
    THEN keys = t.required_fields
    ELSE t.minimum_acceptable_fields \subseteq keys

Unset == "unset"

NewExecution == [status |-> "PENDING", response |-> Unset, error |-> Unset, duration |-> Unset]

\* What one run of _inner does: for the preprocessor, the callable and the
\* postprocessor, "skip" (not configured or not reached), "ok" or "raise".
invoke_steps(t, preOk, funcOk, postOk) ==
    LET pre == IF ~t.preprocessor THEN "skip" ELSE IF preOk THEN "ok" ELSE "raise"
        func == IF pre = "raise" THEN "skip" ELSE IF funcOk THEN "ok" ELSE "raise"
        post == IF func # "ok" \/ ~t.postprocessor THEN "skip"
                ELSE IF postOk THEN "ok" ELSE "raise"
    IN  [pre |-> pre, func |-> func, post |-> post]

StepRaised(st) == "raise" \in {st.pre, st.func, st.post}

\* str(e) of the exception a step raised.
RaisedMessage(st) ==
    IF st.pre = "raise" THEN "pre error"
    ELSE IF st.func = "raise" THEN "func error"
    ELSE "post error"

\* The try/except of invoke: what it writes to self.execution.
invoke_execution_keeps_raw_response(ex, st) ==
    IF StepRaised(st)
    THEN [ex EXCEPT !.status = "FAILED",
                    !.duration = "set",
                    !.error = RaisedMessage(st),
                    !.response = IF st.func = "ok" THEN "r" ELSE ex.response]
    ELSE [ex EXCEPT !.status = "COMPLETED",
                    !.duration = "set",
                    !.response = IF st.post = "ok" THEN "post(r)" ELSE "r"]

invoke_execution_status_only(ex, st) ==
    IF StepRaised(st)
    THEN [ex EXCEPT !.status = "FAILED"]
    ELSE [ex EXCEPT !.status = "COMPLETED",
                    !.duration = "set",
                    !.response = IF st.post = "ok" THEN "post(r)" ELSE "r"]

invoke_execution(ex, st) ==
    IF StepRaised(st)
    THEN [ex EXCEPT !.status = "FAILED",
                    !.duration = "set",
                    !.error = RaisedMessage(st)]
    ELSE [ex EXCEPT !.status = "COMPLETED",
                    !.duration = "set",
                    !.response = IF st.post = "ok" THEN "post(r)" ELSE "r"]

\* self.arguments when the callable is reached: the preprocessor's output
\* when a preprocessor is configured (line 65), the given arguments otherwise.
callable_arguments_unprocessed(args, st, newArgs) == args

callable_arguments(args, st, newArgs) ==
    IF st.pre = "ok" THEN newArgs ELSE args

NoInvoke ==
    [pre |-> "skip", func |-> "skip", post |-> "skip", before |-> "none",
     pre_out |-> {}, called_with |-> {}]

FInit ==
    /\ tool \in Tools
    /\ given = {}
    /\ arguments = {}
    /\ fcState = "none"
    /\ execution = NewExecution
    /\ ran = [pre |-> 0, func |-> 0, post |-> 0]
    /\ invokes = 0
    /\ escaped = "none"
    /\ last = NoInvoke

\* FunctionCalling(func_tool=tool, arguments=args): the model validator runs
\* after the fields are set; when it raises, no event exists and the error
\* reaches the code that asked for the invocation.
Construct(args) ==
    /\ fcState = "none"
    /\ given' = args
    /\ IF validate_strict_tool(tool, args)
       THEN /\ fcState' = "created"
            /\ arguments' = args
            /\ UNCHANGED escaped
       ELSE /\ fcState' = "rejected"
            /\ escaped' = "ValueError"
            /\ UNCHANGED arguments
    /\ UNCHANGED <<tool, execution, ran, invokes, last>>
    /\ UNCHANGED <<rvars, bvars, dvars, cvars, xvars, pvars, tvars>>

\* invoke(): _inner() inside try/except.  preOk, funcOk, postOk say whether
\* the preprocessor, the callable and the postprocessor return (TRUE) or
\* raise; newArgs is what the preprocessor returns.  last records what this
\* run did and the status it found.
Invoke(preOk, newArgs, funcOk, postOk) ==
    /\ fcState = "created"
    /\ invokes < MaxInvokes
    /\ invokes' = invokes + 1
    /\ LET st == invoke_steps(tool, preOk, funcOk, postOk)
       IN  /\ ran' = [pre |-> ran.pre + (IF st.pre # "skip" THEN 1 ELSE 0),
                      func |-> ran.func + (IF st.func # "skip" THEN 1 ELSE 0),
                      post |-> ran.post + (IF st.post # "skip" THEN 1 ELSE 0)]
           /\ arguments' = callable_arguments(arguments, st, newArgs)
           /\ execution' = invoke_execution(execution, st)
           /\ last' = [pre |-> st.pre, func |-> st.func, post |-> st.post,
                       before |-> execution.status,
                       pre_out |-> IF st.pre = "ok" THEN newArgs ELSE {},
                       called_with |-> IF st.func # "skip"
                                       THEN callable_arguments(arguments, st, newArgs)
                                       ELSE {}]
    /\ UNCHANGED <<tool, given, fcState, escaped>>
    /\ UNCHANGED <<rvars, bvars, dvars, cvars, xvars, pvars, tvars>>

ToolNext ==
    \/ \E args \in SUBSET Fields : Construct(args)
    \/ \E preOk, funcOk, postOk \in BOOLEAN, newArgs \in SUBSET Fields :
         Invoke(preOk, newArgs, funcOk, postOk)

InitTool == RIdle /\ BIdle /\ FInit /\ DIdle /\ CIdle /\ XIdle /\ PIdle /\ TIdle

SpecTool == InitTool /\ [][ToolNext]_vars

(***************************************************************************)
(* C10. A tool call whose arguments fail the tool's field contract fails   *)
(* with the argument-mismatch error (the validator's ValueError), and the  *)
(* tool's callable, preprocessor and postprocessor are never executed for  *)
(* that call.                                                              *)
(***************************************************************************)
\* The field contract, as the spec words it.
MeetsContract(t, keys) ==
    IF t.strict_func_call
    THEN keys = t.required_fields
    ELSE t.minimum_acceptable_fields \subseteq keys

C10_MismatchNeverExecutes ==
    (fcState # "none" /\ ~MeetsContract(tool, given)) =>
        /\ fcState = "rejected"
        /\ escaped = "ValueError"
        /\ execution.status = "PENDING"
        /\ ran.pre = 0 /\ ran.func = 0 /\ ran.post = 0

C10_Witness ==
    /\ fcState = "rejected"
    /\ tool.strict_func_call
    /\ tool.preprocessor
    /\ \E f \in tool.required_fields : f \notin given
    /\ given # {}

(***************************************************************************)
(* C11. Validation accepts a call exactly when its argument keys meet the  *)
(* contract: equal to the required fields for a strict tool, a superset of *)
(* the minimum acceptable fields otherwise.  As stated, an accepted        *)
(* non-strict call with a strict superset of the minimum fields reaches    *)
(* the callable and ends COMPLETED whenever the callable does not raise.   *)
(***************************************************************************)
AcceptedIffContract ==
    fcState # "none" => (fcState = "created" <=> MeetsContract(tool, given))

\* An accepted call of a non-strict tool with more than the minimum fields
\* that has been invoked.
SupersetCallInvoked ==
    /\ fcState = "created"
    /\ ~tool.strict_func_call
    /\ tool.minimum_acceptable_fields \subseteq given
    /\ tool.minimum_acceptable_fields # given
    /\ invokes >= 1

C11_AcceptsIffContract ==
    /\ AcceptedIffContract
    /\ (SupersetCallInvoked /\ last.func # "raise") =>
           (last.func = "ok" /\ execution.status = "COMPLETED")

\* C11, amended: the call ends COMPLETED when neither the callable nor a
\* configured preprocessor or postprocessor raises.
C11_AcceptsIffContractAmended ==
    /\ AcceptedIffContract
    /\ (SupersetCallInvoked /\ ~StepRaised(last)) =>
           (last.func = "ok" /\ execution.status = "COMPLETED")

C11_Witness ==
    /\ SupersetCallInvoked
    /\ tool.minimum_acceptable_fields # {}
    /\ last.func = "ok"
    /\ execution.status = "COMPLETED"
    /\ execution.response = "r"

(***************************************************************************)
(* C12. An argument mismatch is reported as an invocation in status FAILED *)
(* with the error captured, and no exception reaches the caller that asked *)
(* for the invocation.                                                     *)
(***************************************************************************)
C12_MismatchReportedAsFailed ==
    (fcState # "none" /\ ~MeetsContract(tool, given)) =>
        /\ execution.status = "FAILED"
        /\ execution.error # Unset
        /\ escaped = "none"

(***************************************************************************)
(* C13. Once the status of an invocation has left PENDING, no later step   *)
(* (a second invoke included) changes its status, response, error,         *)
(* duration or arguments.                                                  *)
(***************************************************************************)
C13_TerminalImmutable ==
    [][execution.status # "PENDING" =>
          (execution' = execution /\ arguments' = arguments)]_vars

(***************************************************************************)
(* C14. When the preprocessor, the callable or the postprocessor raises    *)
(* during invoke, the invocation ends FAILED with the exception's message  *)
(* as its error and its duration recorded, and invoke returns normally.    *)
(***************************************************************************)
C14_RaiseEndsFailed ==
    (invokes >= 1 /\ StepRaised(last)) =>
        /\ execution.status = "FAILED"
        /\ execution.error = RaisedMessage(last)
        /\ execution.duration = "set"
        /\ escaped = "none"
        /\ fcState = "created"

C14_Witness ==
    /\ invokes = 1
    /\ last.pre = "ok"
    /\ last.func = "ok"
    /\ last.post = "raise"
    /\ execution.status = "FAILED"
    /\ execution.error = "post error"

(***************************************************************************)
(* C30. In invoke the configured hooks run in the order preprocessor,      *)
(* callable, postprocessor: the callable receives the preprocessor's       *)
(* output as its arguments, the stored response is the postprocessor's     *)
(* output, and when the preprocessor raises the callable is never called.  *)
(***************************************************************************)
C30_HookOrder ==
    invokes >= 1 =>
        /\ last.pre = "raise" => (last.func = "skip" /\ last.post = "skip")
        /\ last.func # "ok" => last.post = "skip"
        /\ tool.preprocessor => last.pre # "skip"
        /\ last.pre = "ok" =>
               (last.func # "skip" /\ last.called_with = last.pre_out)
        /\ last.post = "ok" => execution.response = "post(r)"
        /\ (invokes = 1 /\ last.pre = "raise") => ran.func = 0

\* Both hooks ran and the preprocessor changed the arguments.
C30_Witness ==
    /\ invokes = 1
    /\ last.pre = "ok"
    /\ last.func = "ok"
    /\ last.post = "ok"
    /\ last.pre_out # given
    /\ last.called_with = last.pre_out
    /\ execution.response = "post(r)"

(***************************************************************************)
(* C39. After invoke returns on a PENDING invocation its status is not     *)
(* PENDING and exactly one outcome is recorded: COMPLETED with the         *)
(* response set and the error unset, or FAILED with the error set and the  *)
(* response unset (also when only the postprocessor raised); the duration  *)
(* is set either way.                                                      *)
(***************************************************************************)
C39_OneOutcomeRecorded ==
    (invokes >= 1 /\ last.before = "PENDING") =>
        /\ execution.duration # Unset
        /\ \/ /\ execution.status = "COMPLETED"
              /\ execution.response # Unset
              /\ execution.error = Unset
           \/ /\ execution.status = "FAILED"
              /\ execution.error # Unset
              /\ execution.response = Unset

\* The callable returned and only the postprocessor raised.
C39_Witness ==
    /\ invokes = 1
    /\ last.before = "PENDING"
    /\ last.func = "ok"
    /\ last.post = "raise"
    /\ execution.status = "FAILED"
    /\ execution.response = Unset

(***************************************************************************)
(* The action dispatcher: _process_action_request of unit_mixin.py and the *)
(* tail of _process_chatcompletion of directive/base.py.  The parser, the  *)
(* registry's tools and Tool.invoke are not part of the sources; they      *)
(* follow the specification: the parser gives nothing or a sequence of     *)
(* zero or more declarations, and invoking a tool gives an invocation in   *)
(* status COMPLETED or FAILED and never raises.  dcfg.returns = "value"    *)
(* covers registries whose tools hand back the callable's own value, which *)
(* may be a list or None.                                                  *)
(*                                                                         *)
(* dcfg     the dispatch under study: which of the two dispatchers, the    *)
(*          invoke_tool flag, the registry, the parser's result and the    *)
(*          assistant message                                              *)
(* dpc      "start", "awaiting" (suspended in asyncio.gather), "done",     *)
(*          "raised"                                                       *)
(* convlog  the records added to the branch by add_message, in order       *)
(* tasks    the state of each created task, by declaration index           *)
(* finished the declaration indexes in the order their tasks finished      *)
(* returned what each task's tool.invoke returned, by declaration index    *)
(* dresult  what the dispatch returned or raised                           *)
(***************************************************************************)
MaxDecls == 3

ToolNames == {"A", "B"}

ParserResults ==
    {[found |-> FALSE, decls |-> <<>>]}
        \cup {[found |-> TRUE, decls |-> d] : d \in SeqsUpTo(ToolNames, MaxDecls)}

DispatchConfigs ==
    [mode : {"dispatch"},
     variant : {"unit_mixin", "base"},
     invoke_tool : BOOLEAN,
     registry : SUBSET ToolNames,
     parsed : ParserResults,
     msg : {"content", None},
     returns : {"invocation", "value"}]

Rec(kind, idx, func, status) ==
    [kind |-> kind, idx |-> idx, func |-> func, status |-> status,
     sender |-> "-", recipient |-> "-"]

\* The sender the parser gives every action request, and the ln_id of the
\* registered tool of a name.
Requester == "requester"

ToolId(f) == IF f = "A" THEN "id_A" ELSE "id_B"

\* An action request after the resolution loop has set its recipient.
ResolvedRequest(decls, k) ==
    [Rec("request", k, decls[k], "-") EXCEPT
        !.sender = Requester, !.recipient = ToolId(decls[k])]

\* The assistant_response record _process_chatcompletion adds before the
\* action requests are looked at.
AssistantLog(msg) ==
    IF msg # None THEN <<Rec("assistant", 0, "-", "-")>> ELSE <<>>

DInit ==
    /\ dcfg \in DispatchConfigs
    /\ dpc = "start"
    /\ convlog = AssistantLog(dcfg.msg)
    /\ tasks = <<>>
    /\ finished = <<>>
    /\ returned = <<>>
    /\ dresult = [kind |-> "pending", value |-> "-"]

\* `i.function in branch.tool_manager.registry`
Resolves_always(f, registry) == TRUE

Resolves(f, registry) == f \in registry

Unresolved(decls, registry) ==
    {k \in 1..Len(decls) : ~Resolves(decls[k], registry)}

FirstUnresolved(decls, registry) ==
    CHOOSE k \in Unresolved(decls, registry) :
        \A j \in Unresolved(decls, registry) : k <= j

\* The action_request records the resolution loop adds for the first n
\* declarations: one per declaration, in declaration order.
request_records_reversed(decls, n) ==
    [k \in 1..n |-> ResolvedRequest(decls, n + 1 - k)]

request_records(decls, n) ==
    [k \in 1..n |-> ResolvedRequest(decls, k)]

not_found_error(variant) ==
    IF variant = "unit_mixin" THEN "ActionError" ELSE "ValueError"

\* What is returned when the parser's result is None.
no_action_return(variant, msg) ==
    IF variant = "unit_mixin"
    THEN (IF msg # None THEN msg ELSE "False")
    ELSE msg

\* The result slot of a task that has not finished.
NotReturned == Scalar("-")

\* `if invoke_tool:`
invokes_tools_always(c) == TRUE

invokes_tools(c) == c.invoke_tool

\* The synchronous part of a dispatch: parse, resolve every declaration and
\* add its request record, then create one task per declaration and suspend
\* in gather (or return None when invoke_tool is false).
Dispatch ==
    /\ dpc = "start"
    /\ LET decls == dcfg.parsed.decls
           reg == dcfg.registry
       IN  IF ~dcfg.parsed.found
           THEN /\ dpc' = "done"
                /\ dresult' = [kind |-> "returned",
                               value |-> no_action_return(dcfg.variant, dcfg.msg)]
                /\ UNCHANGED <<convlog, tasks, returned>>
           ELSE IF Unresolved(decls, reg) # {}
           THEN /\ convlog' = convlog \o
                       request_records(decls, FirstUnresolved(decls, reg) - 1)
                /\ dpc' = "raised"
                /\ dresult' = [kind |-> "raised",
                               value |-> not_found_error(dcfg.variant)]
                /\ UNCHANGED <<tasks, returned>>
           ELSE /\ convlog' = convlog \o request_records(decls, Len(decls))
                /\ IF invokes_tools(dcfg)
                   THEN /\ tasks' = [k \in 1..Len(decls) |-> "scheduled"]
                        /\ returned' = [k \in 1..Len(decls) |-> NotReturned]
                        /\ dpc' = "awaiting"
                        /\ UNCHANGED dresult
                   ELSE /\ dpc' = "done"
                        /\ dresult' = [kind |-> "returned", value |-> None]
                        /\ UNCHANGED <<tasks, returned>>
    /\ UNCHANGED <<dcfg, finished>>
    /\ UNCHANGED <<rvars, bvars, fvars, cvars, xvars, pvars, tvars>>

\* A task created by asyncio.create_task starts once the dispatcher is
\* suspended; the event loop starts tasks in creation order.
InvStart(k) ==
    /\ dpc = "awaiting"
    /\ k \in 1..Len(tasks)
    /\ tasks[k] = "scheduled"
    /\ \A j \in 1..(k - 1) : tasks[j] # "scheduled"
    /\ tasks' = [tasks EXCEPT ![k] = "running"]
    /\ UNCHANGED <<dcfg, dpc, convlog, finished, returned, dresult>>
    /\ UNCHANGED <<rvars, bvars, fvars, cvars, xvars, pvars, tvars>>

IsTerminal(st) == st \in {"COMPLETED", "FAILED"}

\* The value that stands for the result of the k-th tool call.
ValOf(k) == <<"v1", "v2", "v3", "v4", "v5">>[k]

ResultShapes == {"plain", "list", "none"}

\* What a task's tool.invoke returns.  By the specification it is the
\* invocation, a value that is not a list and not None, carrying its
\* status.  A tool that hands back its callable's value returns that value,
\* a list of values or None.
tool_invoke_result(returns, st, k, shape) ==
    IF returns = "invocation" THEN Scalar(st)
    ELSE IF shape = "plain" THEN Scalar(ValOf(k))
    ELSE IF shape = "list" THEN ListOf(<<ValOf(k), ValOf(k)>>)
    ELSE Scalar(None)

\* tool.invoke(arguments) ends.  An invocation is COMPLETED or FAILED; a
\* tool that hands back a raw value has no status to report and its task is
\* simply complete.
InvFinish(k, st, shape) ==
    /\ k \in 1..Len(tasks)
    /\ tasks[k] = "running"
    /\ IsTerminal(st)
    /\ dcfg.returns = "invocation" => shape = "plain"
    /\ dcfg.returns = "value" => st = "COMPLETED"
    /\ tasks' = [tasks EXCEPT ![k] = st]
    /\ returned' = [returned EXCEPT
                       ![k] = tool_invoke_result(dcfg.returns, st, k, shape)]
    /\ finished' = Append(finished, k)
    /\ UNCHANGED <<dcfg, dpc, convlog, dresult>>
    /\ UNCHANGED <<rvars, bvars, fvars, cvars, xvars, pvars, tvars>>

\* `await asyncio.gather(*tasks)` resumes when every task has finished.
GatherReturned_on_first_failure(ts) ==
    \/ \A k \in 1..Len(ts) : IsTerminal(ts[k])
    \/ \E k \in 1..Len(ts) : ts[k] = "FAILED"

GatherReturned(ts) == \A k \in 1..Len(ts) : IsTerminal(ts[k])

\* gather's list: the tasks' results in the order the tasks were passed.
gather_results_as_completed(rets, fin) ==
    [j \in 1..Len(fin) |-> rets[fin[j]]]

gather_results(rets, fin) ==
    [k \in 1..Len(rets) |-> rets[k]]

\* unit_mixin: `if item is not None`
ResponseKept_dropping_failed(item) == item = Scalar("COMPLETED")

ResponseKept(item) == item # Scalar(None)

\* add_message(action_request=req, func_outputs=item, sender=..., recipient=...):
\* unit_mixin passes sender and recipient; base.py passes the sender only
\* and the response takes the request's sender as its recipient.
response_parties_swapped(variant, req) ==
    [sender |-> req.sender, recipient |-> req.recipient]

response_parties(variant, req) ==
    [sender |-> req.recipient, recipient |-> req.sender]

ResponseRec(variant, req, out) ==
    [Rec("response", req.idx, req.func, out) EXCEPT
        !.sender = response_parties(variant, req).sender,
        !.recipient = response_parties(variant, req).recipient]

\* The action_response records added after gather.  unit_mixin walks
\* enumerate(results) and pairs item idx with action_request[idx]; base.py
\* flattens the results and zips them with the declarations.
response_records(variant, decls, results) ==
    IF variant = "unit_mixin"
    THEN LET all == [k \in 1..Len(results) |->
                        ResponseRec(variant, ResolvedRequest(decls, k),
                                    results[k].elems[1])]
             kept(r) == ResponseKept(results[r.idx])
         IN  SelectSeq(all, kept)
    ELSE LET flat == FlattenResults(results)
         IN  [k \in 1..Min(Len(flat), Len(decls)) |->
                 ResponseRec(variant, ResolvedRequest(decls, k),
                             flat[k].elems[1])]

\* The dispatcher resumes from gather, adds the responses and returns None.
DispatchGather ==
    /\ dpc = "awaiting"
    /\ GatherReturned(tasks)
    /\ convlog' = convlog \o
           response_records(dcfg.variant, dcfg.parsed.decls,
                            gather_results(returned, finished))
    /\ dpc' = "done"
    /\ dresult' = [kind |-> "returned", value |-> None]
    /\ UNCHANGED <<dcfg, tasks, finished, returned>>
    /\ UNCHANGED <<rvars, bvars, fvars, cvars, xvars, pvars, tvars>>

InvStep == \E k \in 1..MaxDecls : InvStart(k)

InvEnd ==
    \E k \in 1..MaxDecls, st \in {"COMPLETED", "FAILED"}, shape \in ResultShapes :
        InvFinish(k, st, shape)

DispatchNext ==
    \/ Dispatch
    \/ InvStep
    \/ InvEnd
    \/ DispatchGather

InitDispatch == RIdle /\ BIdle /\ FIdle /\ DInit /\ CIdle /\ XIdle /\ PIdle /\ TIdle

SpecDispatch == InitDispatch /\ [][DispatchNext]_vars

\* The records of one kind in the log, and where a record sits in the log.
LogOf(kind) == SelectSeq(convlog, LAMBDA r : r.kind = kind)

LogPos(kind, idx) ==
    {p \in 1..Len(convlog) : convlog[p].kind = kind /\ convlog[p].idx = idx}

NumDecls == Len(dcfg.parsed.decls)

AllResolved ==
    dcfg.parsed.found /\ Unresolved(dcfg.parsed.decls, dcfg.registry) = {}

\* The registry's tools return invocations, as the specification has it.
ReturnsInvocation == dcfg.returns = "invocation"

(***************************************************************************)
(* C15. Whatever order the concurrently dispatched invocations finish in,  *)
(* the response records are in the log in the order of their request       *)
(* records (declaration order), each carrying the outcome of its own       *)
(* request's invocation.                                                   *)
(***************************************************************************)
C15_ResponsesInRequestOrder ==
    /\ \A p, q \in 1..Len(convlog) :
          (p < q /\ convlog[p].kind = "response" /\ convlog[q].kind = "response") =>
              /\ convlog[p].idx < convlog[q].idx
              /\ \A pr \in LogPos("request", convlog[p].idx),
                    qr \in LogPos("request", convlog[q].idx) : pr < qr
    /\ \A p \in 1..Len(convlog) :
          convlog[p].kind = "response" =>
              /\ LogPos("request", convlog[p].idx) # {}
              /\ convlog[p].func = dcfg.parsed.decls[convlog[p].idx]
              /\ ReturnsInvocation => convlog[p].status = tasks[convlog[p].idx]

\* Three invocations finished last-declared first, with different outcomes.
C15_Witness ==
    /\ ReturnsInvocation
    /\ dpc = "done"
    /\ Len(finished) = 3
    /\ finished[1] > finished[2]
    /\ finished[2] > finished[3]
    /\ tasks[1] # tasks[3]
    /\ Len(LogOf("response")) = 3

(***************************************************************************)
(* C16. A dispatch with invoke_tool of N resolved requests, some of whose  *)
(* tools fail, does not raise and adds exactly N response records, one per *)
(* request: completed for the tools that succeeded, failed for those that  *)
(* failed.                                                                 *)
(***************************************************************************)
C16_OneResponsePerRequest ==
    (dpc = "done" /\ dcfg.invoke_tool /\ AllResolved /\ ReturnsInvocation) =>
        /\ dresult.kind = "returned"
        /\ Len(LogOf("response")) = NumDecls
        /\ \A k \in 1..NumDecls :
              /\ Cardinality(LogPos("response", k)) = 1
              /\ \A p \in LogPos("response", k) :
                    /\ IsTerminal(convlog[p].status)
                    /\ convlog[p].status = tasks[k]

\* Requests A and B: A succeeded, B failed, both responses present.
C16_Witness ==
    /\ ReturnsInvocation
    /\ dpc = "done"
    /\ dcfg.parsed.decls = <<"A", "B">>
    /\ tasks = <<"COMPLETED", "FAILED">>
    /\ dresult.kind = "returned"
    /\ \E p, q \in 1..Len(convlog) :
          /\ convlog[p].kind = "response" /\ convlog[p].idx = 1
          /\ convlog[p].func = "A" /\ convlog[p].status = "COMPLETED"
          /\ convlog[q].kind = "response" /\ convlog[q].idx = 2
          /\ convlog[q].func = "B" /\ convlog[q].status = "FAILED"

(***************************************************************************)
(* C17. When one of several dispatched invocations fails, its siblings are *)
(* not cancelled: every invocation of the dispatch has reached its own     *)
(* terminal state before the dispatch finishes.                            *)
(***************************************************************************)
C17_SiblingsRunToCompletion ==
    /\ (dpc \in {"done", "raised"}) =>
           \A k \in 1..Len(tasks) : IsTerminal(tasks[k])
    /\ \A k \in 1..Len(tasks) :
           tasks[k] \in {"scheduled", "running", "COMPLETED", "FAILED"}

\* The first invocation failed while a sibling was still running or not yet
\* started, and the sibling went on to complete.
C17_Witness ==
    /\ dpc = "done"
    /\ Len(tasks) >= 2
    /\ tasks[finished[1]] = "FAILED"
    /\ \E k \in 1..Len(tasks) : k # finished[1] /\ tasks[k] = "COMPLETED"

(***************************************************************************)
(* C18. In a dispatch a request record is added for every resolved         *)
(* declaration, in declaration order, before the first invocation starts;  *)
(* every response record in the log is preceded by its request record.     *)
(***************************************************************************)
\* The log holds one request record per declaration, in declaration order.
AllRequestsLogged ==
    /\ Len(LogOf("request")) = NumDecls
    /\ \A k \in 1..NumDecls :
          /\ LogOf("request")[k].idx = k
          /\ LogOf("request")[k].func = dcfg.parsed.decls[k]

C18_RequestsBeforeInvocations ==
    /\ (AllResolved /\ dpc # "start") => AllRequestsLogged
    /\ tasks # <<>> => AllRequestsLogged
    /\ \A p \in 1..Len(convlog) :
           convlog[p].kind = "response" =>
               \E q \in 1..(p - 1) :
                   /\ convlog[q].kind = "request"
                   /\ convlog[q].idx = convlog[p].idx

\* Every request is logged and no invocation has started yet.
C18_Witness ==
    /\ dpc = "awaiting"
    /\ NumDecls >= 2
    /\ \A k \in 1..Len(tasks) : tasks[k] = "scheduled"
    /\ Len(LogOf("request")) = NumDecls
    /\ dcfg.parsed.decls[1] # dcfg.parsed.decls[2]

(***************************************************************************)
(* C19. If a declared function name is not in the registry, the dispatch   *)
(* fails with the tool-not-found error, no tool of the batch is invoked    *)
(* (not even one whose name resolved) and no response record is added.     *)
(***************************************************************************)
DeclaresUnknown ==
    /\ dcfg.parsed.found
    /\ \E k \in 1..NumDecls : dcfg.parsed.decls[k] \notin dcfg.registry

C19_UnknownToolFailsBatch ==
    (DeclaresUnknown /\ dpc # "start") =>
        /\ dpc = "raised"
        /\ dresult = [kind |-> "raised", value |-> not_found_error(dcfg.variant)]
        /\ tasks = <<>>
        /\ finished = <<>>
        /\ LogOf("response") = <<>>

\* A resolved first declaration, an unknown second one, invoke_tool set.
C19_Witness ==
    /\ dpc = "raised"
    /\ dcfg.invoke_tool
    /\ NumDecls >= 2
    /\ dcfg.parsed.decls[1] \in dcfg.registry
    /\ dcfg.parsed.decls[2] \notin dcfg.registry
    /\ tasks = <<>>

(***************************************************************************)
(* C20. When the parser finds no declarations in the assistant message     *)
(* (nothing, or a sequence of zero declarations), the dispatch returns the *)
(* original message content, invokes no tool and adds no request or        *)
(* response record.                                                        *)
(***************************************************************************)
C20_NoActionReturnsMessage ==
    (dcfg.msg # None /\ dcfg.parsed.decls = <<>> /\ dpc \in {"done", "raised"}) =>
        /\ dresult = [kind |-> "returned", value |-> dcfg.msg]
        /\ tasks = <<>>
        /\ convlog = AssistantLog(dcfg.msg)

(***************************************************************************)
(* C21. A dispatch returns None exactly when action records of at least    *)
(* one declaration were added to the log, and returns the original message *)
(* (never None) exactly when no declaration was found.                     *)
(***************************************************************************)
ActionRecordsAdded ==
    \E p \in 1..Len(convlog) : convlog[p].kind \in {"request", "response"}

C21_ReturnTellsOutcome ==
    (dpc = "done" /\ dcfg.msg # None) =>
        /\ dresult.value = None <=> ActionRecordsAdded
        /\ dresult.value = dcfg.msg <=> dcfg.parsed.decls = <<>>

(***************************************************************************)
(* C27. When a dispatch fails with the tool-not-found error the log is     *)
(* exactly what it was before the dispatch: no request record of the       *)
(* batch, not even of a declaration before the unresolved one, was added.  *)
(***************************************************************************)
C27_NotFoundLeavesLog ==
    dpc = "raised" => convlog = AssistantLog(dcfg.msg)

(***************************************************************************)
(* C28. The i-th response record a dispatch adds is built from the i-th    *)
(* request and the result of the i-th tool call, whatever the tools return *)
(* (a list and None included).                                             *)
(***************************************************************************)
C28_ResponsePairsOwnResult ==
    dpc = "done" =>
        \A i \in 1..Len(LogOf("response")) :
            /\ LogOf("response")[i].idx = i
            /\ LogOf("response")[i].func = dcfg.parsed.decls[i]
            /\ ~returned[i].list => LogOf("response")[i].status = returned[i].elems[1]
            /\ returned[i].list => LogOf("response")[i].status = ValOf(i)

(***************************************************************************)
(* C29. Every response record has as sender the identity of the tool that  *)
(* was called (the recipient of its request) and as recipient the sender   *)
(* of its request.                                                         *)
(***************************************************************************)
C29_ResponseParties ==
    \A p \in 1..Len(convlog) :
        convlog[p].kind = "response" =>
            /\ convlog[p].sender = ToolId(dcfg.parsed.decls[convlog[p].idx])
            /\ convlog[p].recipient = Requester
            /\ \E q \in 1..(p - 1) :
                  /\ convlog[q].kind = "request"
                  /\ convlog[q].idx = convlog[p].idx
                  /\ convlog[q].recipient = convlog[p].sender
                  /\ convlog[q].sender = convlog[p].recipient

\* Responses of two different tools are in the log.
C29_Witness ==
    /\ dpc = "done"
    /\ \E p, q \in 1..Len(convlog) :
          /\ convlog[p].kind = "response" /\ convlog[p].sender = "id_A"
          /\ convlog[q].kind = "response" /\ convlog[q].sender = "id_B"

(***************************************************************************)
(* One chat turn: _base_chat of unit_mixin.py with _create_chat_config,    *)
(* the model call and _process_chatcompletion (the same code is in         *)
(* directive/base.py).  branch.add_message is not part of the sources; by  *)
(* the specification it appends one record to the conversation log.        *)
(*                                                                         *)
(* ccfg        the arguments of the turn and the log it starts from        *)
(* cpc         "start", "built", "called", "processed", "done"             *)
(* messages    the branch's messages                                       *)
(* completion  the model's response                                        *)
(* num_tasks_succeeded, num_tasks_failed   the status tracker's counters   *)
(***************************************************************************)
MaxPrior == 2

MaxActions == 2

ChatConfigs ==
    [mode : {"chat"},
     clear_messages : BOOLEAN,
     system : BOOLEAN,
     form : BOOLEAN,
     prior : SeqsUpTo({"old"}, MaxPrior)]

\* The shapes of a model response that _process_chatcompletion tells apart:
\* whether it has a "choices" key, whether the choices value (or the first
\* element of a non-empty list) is a dict, and whether that dict has a
\* "message" key.
Completions ==
    {c \in [mode : {"completion"}, has_choices : BOOLEAN,
            yields_dict : BOOLEAN, has_message : BOOLEAN] :
        /\ c.yields_dict => c.has_choices
        /\ c.has_message => c.yields_dict}

NoCompletion ==
    [mode |-> "none", has_choices |-> FALSE, yields_dict |-> FALSE,
     has_message |-> FALSE]

CInit ==
    /\ ccfg \in ChatConfigs
    /\ cpc = "start"
    /\ messages = ccfg.prior
    /\ completion = NoCompletion
    /\ num_tasks_succeeded = 0
    /\ num_tasks_failed = 0

\* branch.add_message(...)
add_message(msgs, m) == Append(msgs, m)

\* `if clear_messages: branch.clear()`
start_messages_always_cleared(msgs, clear) == <<>>

start_messages(msgs, clear) == IF clear THEN <<>> ELSE msgs

\* _create_chat_config: the system message when one is given, then the
\* instruction (built from the form when there is one).
create_chat_config(msgs, system, form) ==
    LET withSystem == IF system THEN add_message(msgs, "system") ELSE msgs
    IN  add_message(withSystem, IF form THEN "instruction(form)" ELSE "instruction")

\* _base_chat up to the model call.
ChatBuild ==
    /\ cpc = "start"
    /\ messages' = create_chat_config(
                       start_messages(messages, ccfg.clear_messages),
                       ccfg.system, ccfg.form)
    /\ cpc' = "built"
    /\ UNCHANGED <<ccfg, completion, num_tasks_succeeded, num_tasks_failed>>
    /\ UNCHANGED <<rvars, bvars, fvars, dvars, xvars, pvars, tvars>>

\* await imodel.call_chat_completion(...): the model answers.
ChatCall ==
    /\ cpc = "built"
    /\ completion' \in Completions
    /\ cpc' = "called"
    /\ UNCHANGED <<ccfg, messages, num_tasks_succeeded, num_tasks_failed>>
    /\ UNCHANGED <<rvars, bvars, fvars, dvars, xvars, pvars, tvars>>

\* What the counter of failures gains for a response.
failed_increment(c) == IF c.has_choices THEN 0 ELSE 1

succeeded_increment(c) == IF c.has_choices /\ c.yields_dict THEN 1 ELSE 0

\* _process_chatcompletion before the action requests are looked at.
ChatProcess ==
    /\ cpc = "called"
    /\ messages' = IF completion.has_choices /\ completion.yields_dict
                   THEN add_message(messages,
                                    IF completion.has_message
                                    THEN "assistant" ELSE "assistant(None)")
                   ELSE messages
    /\ num_tasks_succeeded' = num_tasks_succeeded + succeeded_increment(completion)
    /\ num_tasks_failed' = num_tasks_failed + failed_increment(completion)
    /\ cpc' = "processed"
    /\ UNCHANGED <<ccfg, completion>>
    /\ UNCHANGED <<rvars, bvars, fvars, dvars, xvars, pvars, tvars>>

RECURSIVE AddAll(_, _, _)
AddAll(msgs, m, n) == IF n = 0 THEN msgs ELSE AddAll(add_message(msgs, m), m, n - 1)

\* _process_action_request seen from the log: n request records, then,
\* when the tools were invoked, n response records.
ChatAct(n, invoked) ==
    /\ cpc = "processed"
    /\ n > 0 => completion.has_message
    /\ messages' = AddAll(AddAll(messages, "request", n),
                          "response", IF invoked THEN n ELSE 0)
    /\ cpc' = "done"
    /\ UNCHANGED <<ccfg, completion, num_tasks_succeeded, num_tasks_failed>>
    /\ UNCHANGED <<rvars, bvars, fvars, dvars, xvars, pvars, tvars>>

ChatActStep == \E n \in 0..MaxActions, invoked \in BOOLEAN : ChatAct(n, invoked)

ChatNext ==
    \/ ChatBuild
    \/ ChatCall
    \/ ChatProcess
    \/ ChatActStep

InitChat == RIdle /\ BIdle /\ FIdle /\ DIdle /\ CInit /\ XIdle /\ PIdle /\ TIdle

SpecChat == InitChat /\ [][ChatNext]_vars

IsPrefix(a, b) == Len(a) <= Len(b) /\ \A k \in 1..Len(a) : a[k] = b[k]

Recognizable(c) == c.has_choices /\ c.yields_dict

AssistantAdded ==
    \E p \in 1..Len(messages) : messages[p] \in {"assistant", "assistant(None)"}

C26_CountersFollowStructure ==
    cpc \in {"processed", "done"} =>
        IF Recognizable(completion)
        THEN num_tasks_succeeded = 1 /\ num_tasks_failed = 0
        ELSE num_tasks_failed = 1 /\ num_tasks_succeeded = 0 /\ ~AssistantAdded

(***************************************************************************)
(* The directive loop: _base_direct and _extend of unit_mixin.py, which    *)
(* call each other through _direct.  The stack holds their activations;    *)
(* the model's answers (whether the form says extension_required, the      *)
(* length of its plan, whether its answer holds the PLEASE_ACTION          *)
(* sentinel) are inputs.                                                   *)
(*                                                                         *)
(* xcfg      the arguments of the outermost call and the model's behaviour *)
(* stack     activations, outermost first                                  *)
(* cycles    model calls made by the `form = await self._chat(...)` of     *)
(*           _base_direct: one per BUILD->CALL->PARSE cycle                *)
(* followups model calls made for the sentinel (lines 693-697)             *)
(* xlast     the activation of _base_direct that returned last             *)
(* completed history: the extension cycles in the order they returned      *)
(***************************************************************************)
MaxExtension == 2

MaxPlan == 2

MaxCycles == 9

DefaultMaxExtension == 3

DirectConfigs ==
    [mode : {"direct"},
     allow_extension : BOOLEAN,
     max_extension : 0..MaxExtension,
     model : {"always_extend", "free"},
     plan_len : 0..MaxPlan,
     sentinels : BOOLEAN]

\* An activation.  For _base_direct: allow and budget are its allow_extension
\* and max_extension, start is max_extension after line 604, ext/plan/sentinel
\* describe its own form, last_ext and last_plan its last_form, fu counts its
\* follow-up calls.  For _extend: allow and budget are the entries of
\* directive_kwargs, steps the plan keys not yet run, got the forms collected,
\* last_ext and last_plan describe the first of them.  A form is named by
\* the number of the cycle that produced it (id); extension_forms is the
\* local list of _base_direct, which lines 688-691 put on its form, and forms
\* the local list of _extend.
Frame(kind, allow, budget, steps, above) ==
    [kind |-> kind, pc |-> IF kind = "direct" THEN "chat" ELSE "step",
     allow |-> allow, budget |-> budget, start |-> budget, above |-> above,
     steps |-> steps, has_plan |-> steps > 0, got |-> 0,
     ext |-> FALSE, plan |-> 0, sentinel |-> FALSE,
     last_ext |-> FALSE, last_plan |-> 0,
     fu |-> 0, answer |-> "-",
     id |-> 0, extension_forms |-> <<>>, forms |-> <<>>]

\* The budget of the enclosing _base_direct, for the outermost call the
\* budget it was given.
NoParent == 99

XInit ==
    /\ xcfg \in DirectConfigs
    /\ stack = <<Frame("direct", xcfg.allow_extension, xcfg.max_extension, 0, NoParent)>>
    /\ cycles = 0
    /\ followups = 0
    /\ xlast = Frame("none", FALSE, 0, 0, NoParent)
    /\ completed = <<>>

Top == stack[Len(stack)]

SetTop(f) == [stack EXCEPT ![Len(stack)] = f]

Pop == SubSeq(stack, 1, Len(stack) - 1)

\* `if allow_extension and not max_extension: max_extension = 3`
default_max_extension(allow, m) ==
    IF allow /\ m = 0 THEN DefaultMaxExtension ELSE m

\* _base_direct up to the extension loop: the default of max_extension and
\* the model call of this cycle.
DirectChat ==
    /\ stack # <<>>
    /\ Top.kind = "direct" /\ Top.pc = "chat"
    /\ cycles < MaxCycles
    /\ cycles' = cycles + 1
    /\ \E e \in BOOLEAN, sn \in BOOLEAN :
          /\ xcfg.model = "always_extend" => e
          /\ ~xcfg.sentinels => ~sn
          /\ LET m == default_max_extension(Top.allow, Top.budget)
             IN  stack' = SetTop([Top EXCEPT
                                    !.pc = "loop", !.budget = m, !.start = m,
                                    !.id = cycles + 1,
                                    !.ext = e, !.plan = xcfg.plan_len,
                                    !.sentinel = sn,
                                    !.last_ext = e, !.last_plan = xcfg.plan_len,
                                    !.answer = "model"])
    /\ UNCHANGED <<xcfg, followups, xlast, completed>>
    /\ UNCHANGED <<rvars, bvars, fvars, dvars, cvars, pvars, tvars>>

\* One test of the while loop (lines 661-683): leave it, or take one from
\* max_extension and call _extend with what is left.
DirectLoop ==
    /\ stack # <<>>
    /\ Top.kind = "direct" /\ Top.pc = "loop"
    /\ IF Top.allow /\ Top.last_ext /\ Top.budget > 0
       THEN LET left == Top.budget - 1
            IN  stack' = Append(SetTop([Top EXCEPT !.pc = "wait", !.budget = left]),
                                Frame("extend", left > 0, left, Top.last_plan,
                                      Top.start))
       ELSE stack' = SetTop([Top EXCEPT !.pc = "final"])
    /\ UNCHANGED <<xcfg, cycles, followups, xlast, completed>>
    /\ UNCHANGED <<rvars, bvars, fvars, dvars, cvars, pvars, tvars>>

\* _extend calls _direct: for the next plan key, or once when there is no
\* plan.
ExtendStep ==
    /\ stack # <<>>
    /\ Top.kind = "extend" /\ Top.pc = "step"
    /\ stack' = Append(SetTop([Top EXCEPT !.pc = "wait"]),
                       Frame("direct", Top.allow, Top.budget, 0, Top.above))
    /\ UNCHANGED <<xcfg, cycles, followups, xlast, completed>>
    /\ UNCHANGED <<rvars, bvars, fvars, dvars, cvars, pvars, tvars>>

\* `if "PLEASE_ACTION" in form.answer`
followup_needed_always(f) == TRUE

followup_needed(f) == f.sentinel

\* Lines 693-697: the follow-up call for the sentinel, when needed.
DirectFinal ==
    /\ stack # <<>>
    /\ Top.kind = "direct" /\ Top.pc = "final"
    /\ IF followup_needed(Top)
       THEN /\ followups' = followups + 1
            /\ stack' = SetTop([Top EXCEPT !.pc = "ret", !.fu = Top.fu + 1,
                                           !.answer = "followup"])
       ELSE /\ stack' = SetTop([Top EXCEPT !.pc = "ret"])
            /\ UNCHANGED followups
    /\ UNCHANGED <<xcfg, cycles, xlast, completed>>
    /\ UNCHANGED <<rvars, bvars, fvars, dvars, cvars, pvars, tvars>>

\* _extend gets the form of the _direct it called (lines 771-775, 780-781).
extend_after_form(x, form) ==
    LET first == x.got = 0
        stepsLeft == IF x.has_plan THEN x.steps - 1 ELSE 0
    IN  [x EXCEPT
            !.got = x.got + 1,
            !.forms = Append(x.forms, form.id),
            !.last_ext = IF first THEN form.ext ELSE x.last_ext,
            !.last_plan = IF first THEN form.plan ELSE x.last_plan,
            !.budget = IF x.has_plan THEN x.budget - 1 ELSE x.budget,
            !.steps = stepsLeft,
            !.pc = IF x.has_plan /\ form.ext /\ stepsLeft > 0
                   THEN "step" ELSE "ret"]

\* _base_direct returns its form: to the _extend that called it, or to the
\* caller of the outermost call.
DirectReturn ==
    /\ stack # <<>>
    /\ Top.kind = "direct" /\ Top.pc = "ret"
    /\ xlast' = Top
    /\ completed' = IF Len(stack) = 1 THEN completed ELSE Append(completed, Top.id)
    /\ stack' = IF Len(stack) = 1 THEN <<>>
                ELSE [Pop EXCEPT ![Len(stack) - 1] =
                         extend_after_form(stack[Len(stack) - 1], Top)]
    /\ UNCHANGED <<xcfg, cycles, followups>>
    /\ UNCHANGED <<rvars, bvars, fvars, dvars, cvars, pvars, tvars>>

\* `extension_forms.extend([last_form])`, last_form being the list _extend
\* returned: the list becomes one element.
extend_list(l, got) == Append(l, got)

\* _extend returns its list; the loop takes the first form as last_form
\* (lines 685-686).
ExtendReturn ==
    /\ stack # <<>>
    /\ Top.kind = "extend" /\ Top.pc = "ret"
    /\ stack' = [Pop EXCEPT ![Len(stack) - 1] =
                    [stack[Len(stack) - 1] EXCEPT
                        !.pc = "loop",
                        !.got = stack[Len(stack) - 1].got + 1,
                        !.extension_forms =
                            extend_list(stack[Len(stack) - 1].extension_forms, Top.forms),
                        !.last_ext = Top.last_ext,
                        !.last_plan = Top.last_plan]]
    /\ UNCHANGED <<xcfg, cycles, followups, xlast, completed>>
    /\ UNCHANGED <<rvars, bvars, fvars, dvars, cvars, pvars, tvars>>

DirectNext ==
    \/ DirectChat
    \/ DirectLoop
    \/ ExtendStep
    \/ DirectFinal
    \/ DirectReturn
    \/ ExtendReturn

InitDirect == RIdle /\ BIdle /\ FIdle /\ DIdle /\ CIdle /\ XInit /\ PIdle /\ TIdle

SpecDirect == InitDirect /\ [][DirectNext]_vars

\* The outermost call has returned.
XDone == xcfg.mode = "direct" /\ stack = <<>>

(***************************************************************************)
(* C22. With extension allowed, a budget max_extension = m >= 1 and a model *)
(* that asks for extension in every response, one directive call makes     *)
(* exactly m cycles beyond the first, nested calls included, and returns.  *)
(* Stated here for a model whose forms carry no plan.                      *)
(***************************************************************************)
C22_ExactlyMExtraCycles ==
    (/\ XDone
     /\ xcfg.allow_extension
     /\ xcfg.max_extension >= 1
     /\ xcfg.model = "always_extend"
     /\ xcfg.plan_len = 0) =>
        cycles = 1 + xcfg.max_extension

(***************************************************************************)
(* C23. The extension budget a nested call works with is strictly smaller  *)
(* than that of the call enclosing it and is never reset or increased, so  *)
(* that every directive call terminates.                                   *)
(***************************************************************************)
C23_BudgetStrictlyDecreases ==
    \A i \in 1..Len(stack) :
        (stack[i].kind = "direct" /\ stack[i].pc # "chat" /\ i > 1) =>
            stack[i].start < stack[i].above

(***************************************************************************)
(* C24. A directive call whose final answer holds the PLEASE_ACTION        *)
(* sentinel issues exactly one follow-up model call and takes its answer   *)
(* from it; a call whose answer does not hold the sentinel issues none.    *)
(***************************************************************************)
C24_OneFollowUp ==
    /\ xlast.kind = "direct" =>
          IF xlast.sentinel
          THEN xlast.fu = 1 /\ xlast.answer = "followup"
          ELSE xlast.fu = 0 /\ xlast.answer = "model"
    /\ (xcfg.mode = "direct" /\ ~xcfg.sentinels) => followups = 0
    /\ followups <= cycles

\* The outermost call returned after an extension and one follow-up call.
C24_Witness ==
    /\ XDone
    /\ cycles >= 2
    /\ xlast.sentinel
    /\ xlast.fu = 1
    /\ xlast.answer = "followup"
    /\ followups = 1

(***************************************************************************)
(* C31. A dispatch with invoke_tool false adds the request record of every *)
(* resolved declaration, invokes no tool, adds no response record and      *)
(* returns None.                                                           *)
(***************************************************************************)
C31_NoInvokeOnlyRequests ==
    (dcfg.mode = "dispatch" /\ ~dcfg.invoke_tool) =>
        /\ tasks = <<>>
        /\ finished = <<>>
        /\ LogOf("response") = <<>>
        /\ dpc # "awaiting"
        /\ (dpc = "done" /\ AllResolved) =>
               /\ AllRequestsLogged
               /\ dresult = [kind |-> "returned", value |-> None]

\* Two different tools were requested and only their requests are logged.
C31_Witness ==
    /\ dpc = "done"
    /\ ~dcfg.invoke_tool
    /\ NumDecls >= 2
    /\ dcfg.parsed.decls[1] # dcfg.parsed.decls[2]
    /\ Len(LogOf("request")) = NumDecls
    /\ dresult.value = None

(***************************************************************************)
(* C34. The number of extension cycles of a directive call never exceeds   *)
(* the max_extension the caller gave; in particular a call with            *)
(* allow_extension and max_extension = 0 runs no extension cycle.          *)
(***************************************************************************)
ExtensionCycles == cycles - 1

C34_CyclesWithinBudget ==
    (XDone /\ xcfg.allow_extension) =>
        ExtensionCycles <= xcfg.max_extension

(***************************************************************************)
(* C33. The forms of the extension cycles are accumulated on the returned  *)
(* form's extension_forms in the order the cycles completed: every         *)
(* extension cycle's form is there exactly once, earlier cycles first.     *)
(* The per-pass lists the code puts on extension_forms are read through:   *)
(* the forms are those inside them, in order.                              *)
(***************************************************************************)
C33_ExtensionFormsInCompletionOrder ==
    XDone => Concat(xlast.extension_forms) = completed

(***************************************************************************)
(* process_tools (lionagi/core/unit/util.py)                               *)
(*                                                                         *)
(* The registry of the branch's tool manager, register_tools and           *)
(* func_to_tool are not part of the sources; the registry is a mapping     *)
(* from function names to tools and register_tools adds a tool under its   *)
(* name or fails when the name is taken.                                   *)
(*                                                                         *)
(* tool_obj     the argument `tools` of the calls under study              *)
(* tm_registry  branch.tool_manager.registry: name -> ln_id of its tool    *)
(* pt_calls     how many times process_tools was applied                   *)
(* pt_raised    a register_tools call failed on a taken name               *)
(* pt_before    history: the registry before the latest application        *)
(* pt_first     history: the registry before the first application         *)
(***************************************************************************)
MaxTools == 2

MaxCalls == 2

FunctionNames == {"f", "g"}

NotRegistered == "-"

\* What a caller may put in `tools`: Tool objects and plain callables, each
\* with the function name of its schema.
ToolObjects == [kind : {"Tool", "Callable"}, name : FunctionNames, ln_id : {"t1", "t2"}]

\* The values of `tools`: a boolean, one callable, or a list of objects.
ToolArgs ==
    {[kind |-> "bool", items |-> <<>>]}
      \cup {[kind |-> "callable", items |-> <<c>>] :
               c \in {o \in ToolObjects : o.kind = "Callable"}}
      \cup {[kind |-> "list", items |-> q] : q \in SeqsUpTo(ToolObjects, MaxTools)}

PInit ==
    /\ tool_obj \in ToolArgs
    /\ tm_registry \in [FunctionNames -> {NotRegistered, "t0"}]
    /\ pt_calls = 0
    /\ pt_raised = FALSE
    /\ pt_before = tm_registry
    /\ pt_first = tm_registry

\* branch.register_tools(tool) on a registry st.registry.
register_tools(st, t) ==
    IF st.raised THEN st
    ELSE IF st.registry[t.name] # NotRegistered
         THEN [st EXCEPT !.raised = TRUE]
         ELSE [st EXCEPT !.registry[t.name] = t.ln_id]

\* func_to_tool(f)[0]: a Tool named after the function.
func_to_tool(f) == [kind |-> "Tool", name |-> f.name, ln_id |-> f.ln_id]

_process_tool_unchecked(st, o) ==
    IF o.kind = "Tool" THEN register_tools(st, o)
    ELSE register_tools(st, func_to_tool(o))

_process_tool(st, o) ==
    LET s1 == IF o.kind = "Tool" /\ st.registry[o.name] = NotRegistered
              THEN register_tools(st, o)
              ELSE st
    IN  IF o.kind = "Callable"
        THEN LET t == func_to_tool(o)
             IN  IF s1.registry[t.name] = NotRegistered
                 THEN register_tools(s1, t)
                 ELSE s1
        ELSE s1

RECURSIVE process_each(_, _)
process_each(st, q) ==
    IF q = <<>> THEN st
    ELSE process_each(_process_tool(st, Head(q)), Tail(q))

process_tools(arg, st) ==
    IF arg.kind = "callable" THEN _process_tool(st, arg.items[1])
    ELSE IF arg.kind = "bool" THEN st
    ELSE process_each(st, arg.items)

\* One application of process_tools to the branch.
ProcessTools ==
    /\ tool_obj.kind # "idle"
    /\ pt_calls < MaxCalls
    /\ LET st == process_tools(tool_obj, [registry |-> tm_registry, raised |-> pt_raised])
       IN  /\ tm_registry' = st.registry
           /\ pt_raised' = st.raised
    /\ pt_before' = tm_registry
    /\ pt_calls' = pt_calls + 1
    /\ UNCHANGED <<tool_obj, pt_first>>
    /\ UNCHANGED <<rvars, bvars, fvars, dvars, cvars, xvars, tvars>>

ToolsNext == ProcessTools

InitTools == RIdle /\ BIdle /\ FIdle /\ DIdle /\ CIdle /\ XIdle /\ PInit /\ TIdle

SpecTools == InitTools /\ [][ToolsNext]_vars

(***************************************************************************)
(* C35. process_tools registers a given tool only if no tool of that name  *)
(* is in the registry: no register_tools call fails on a taken name, no    *)
(* existing registration is replaced, a second application with the same   *)
(* tools changes nothing, and a boolean argument changes nothing.          *)
(***************************************************************************)
GivenUnder(n) ==
    {tool_obj.items[k].ln_id : k \in {j \in DOMAIN tool_obj.items : tool_obj.items[j].name = n}}

C35_RegistersOnlyNewNames ==
    tool_obj.kind # "idle" =>
        /\ ~pt_raised
        /\ \A n \in FunctionNames :
              /\ pt_first[n] # NotRegistered => tm_registry[n] = pt_first[n]
              /\ tm_registry[n] # pt_first[n] => tm_registry[n] \in GivenUnder(n)
        /\ pt_calls = 2 => tm_registry = pt_before
        /\ tool_obj.kind = "bool" => tm_registry = pt_first

\* Two tools of one name, the name free at first: the first is registered
\* and stays after the second application.
C35_Witness ==
    /\ pt_calls = 2
    /\ tool_obj.kind = "list"
    /\ Len(tool_obj.items) = 2
    /\ tool_obj.items[1].name = "f" /\ tool_obj.items[2].name = "f"
    /\ tool_obj.items[1].ln_id = "t1" /\ tool_obj.items[2].ln_id = "t2"
    /\ pt_first["f"] = NotRegistered
    /\ pt_first["g"] = "t0"
    /\ tm_registry["f"] = "t1"

(***************************************************************************)
(* One directive turn: which branch receives the messages, and _act        *)
(* (lionagi/core/unit/unit_mixin.py)                                       *)
(*                                                                         *)
(* The turn is one call of _base_direct: the chat step, the ACT step, one  *)
(* extension and the sentinel follow-up.  The nested call of an extension  *)
(* is summarised by the messages it adds; its own steps are those of the   *)
(* directive loop above.  Branch.add_message, the registry, Tool.invoke    *)
(* and the parser are not part of the sources: add_message appends a       *)
(* record, an invoked tool yields an invocation (tcfg.returns =            *)
(* "invocation", spec 4.3) or a value that may be None, and the parser     *)
(* finds zero or more declarations in the assistant message (spec 4.4).    *)
(*                                                                         *)
(* tcfg      the arguments of the call; explicit_branch says whether the   *)
(*           caller passed `branch`                                        *)
(* tpc       the step the call is at, "done" or "raised" at its end        *)
(* branches  the messages of the branch the caller passed ("given") and of *)
(*           the directive's own branch, self.branch ("default")           *)
(* tform     the form the chat step returned, with what _act put on it     *)
(* acted     _act called the dispatcher (line 817)                         *)
(***************************************************************************)
MaxActs == 2

MaxParsed == 1

TurnConfigs ==
    [mode : {"turn"},
     explicit_branch : BOOLEAN,
     allow_action : BOOLEAN,
     allow_extension : BOOLEAN,
     registry : {{"A"}, {"A", "B"}},
     returns : {"invocation", "value"}]

\* A message record: part tells the step of the turn that produced it.
Msg(kind, idx, func, part) == [kind |-> kind, idx |-> idx, func |-> func, part |-> part]

NoForm ==
    [none |-> TRUE, action_required |-> FALSE, actions |-> <<>>,
     extension_required |-> FALSE, sentinel |-> FALSE,
     action_response |-> <<>>, action_performed |-> FALSE, answer |-> "-"]

TInit ==
    /\ tcfg \in TurnConfigs
    /\ tpc = "chat"
    /\ branches = [given |-> <<>>, default |-> <<>>]
    /\ tform = NoForm
    /\ acted = FALSE

\* `branch = branch or self.branch`
branch_or_default(explicit) == IF explicit THEN "given" ELSE "default"

\* The branch _output's call of _process_chatcompletion works on: the call
\* passes no branch (lines 258-263), so line 146 takes self.branch.
output_branch(explicit) == "default"

\* branch.add_message(...) on branch b.
add_to(brs, b, m) == [brs EXCEPT ![b] = Append(@, m)]

RECURSIVE add_all_to(_, _, _)
add_all_to(brs, b, ms) ==
    IF ms = <<>> THEN brs ELSE add_all_to(add_to(brs, b, Head(ms)), b, Tail(ms))

turn_requests(fs, part) == [k \in DOMAIN fs |-> Msg("action_request", k, fs[k], part)]

\* The response records of the results that are not None (lines 214-221);
\* kept holds the positions of those results.
RECURSIVE turn_responses(_, _, _, _)
turn_responses(fs, k, kept, part) ==
    IF k > Len(fs) THEN <<>>
    ELSE (IF k \in kept THEN <<Msg("action_response", k, fs[k], part)>> ELSE <<>>)
             \o turn_responses(fs, k + 1, kept, part)

\* _process_action_request with resolved requests and invoke_tool: the
\* request records (line 204), then the response records.
process_action_request(brs, b, fs, kept, part) ==
    add_all_to(add_all_to(brs, b, turn_requests(fs, part)), b,
               turn_responses(fs, 1, kept, part))

\* Which results of n tool calls may be other than None.
KeptSets(n) == IF tcfg.returns = "invocation" THEN {1..n} ELSE SUBSET (1..n)

\* _chat(form=form, branch=branch): the instruction goes to the branch of
\* the call (line 90), the assistant response and the records of a dispatch
\* on the parsed message to the branch of _process_chatcompletion.  When the
\* message held declarations the dispatcher returns None and so does _chat.
TurnChat ==
    /\ tpc = "chat"
    /\ \E parsed \in 0..MaxParsed, ar \in BOOLEAN, er \in BOOLEAN, sn \in BOOLEAN,
          acts \in SeqsUpTo(ToolNames, MaxActs) :
          /\ parsed > 0 => (~ar /\ ~er /\ ~sn /\ acts = <<>>)
          /\ LET b == branch_or_default(tcfg.explicit_branch)
                 o == output_branch(tcfg.explicit_branch)
                 b1 == add_to(branches, b, Msg("instruction", 0, "-", "chat"))
                 b2 == add_to(b1, o, Msg("assistant_response", 0, "-", "chat"))
             IN  /\ branches' = IF parsed > 0
                                THEN process_action_request(b2, o, [k \in 1..parsed |-> "A"],
                                                            1..parsed, "chat")
                                ELSE b2
                 /\ tform' = IF parsed > 0 THEN NoForm
                             ELSE [NoForm EXCEPT !.none = FALSE, !.action_required = ar,
                                                 !.actions = acts, !.extension_required = er,
                                                 !.sentinel = sn, !.answer = "model"]
    /\ tpc' = "act"
    /\ UNCHANGED <<tcfg, acted>>
    /\ UNCHANGED <<rvars, bvars, fvars, dvars, cvars, xvars, pvars>>

\* Lines 652-654.
act_needed_whenever_listed(allow, form) == ~form.none /\ form.actions # <<>>

act_needed(allow, form) ==
    allow /\ ~form.none /\ form.action_required /\ form.actions # <<>>

\* The first action whose function is not in the registry, 0 if none
\* (`branch.tool_manager.registry[_func]`, line 811).
FirstUnknown(fs, reg) ==
    IF \A k \in DOMAIN fs : fs[k] \in reg THEN 0
    ELSE CHOOSE k \in DOMAIN fs : fs[k] \notin reg /\ \A j \in 1..(k - 1) : fs[j] \in reg

\* `branch.messages[-len_actions:]`
last_messages(msgs, n) ==
    IF Len(msgs) <= n THEN msgs ELSE SubSeq(msgs, Len(msgs) - n + 1, Len(msgs))

all_action_responses(ms) == \A k \in DOMAIN ms : ms[k].kind = "action_response"

\* The ACT step: _act when needed (lines 652-655, 797-847).
TurnAct ==
    /\ tpc = "act"
    /\ IF act_needed(tcfg.allow_action, tform)
       THEN LET b == branch_or_default(tcfg.explicit_branch)
                fs == tform.actions
                n == Len(fs)
                bad == FirstUnknown(fs, tcfg.registry)
            IN  IF bad > 0
                THEN /\ branches' = add_all_to(branches, b,
                                        turn_requests(SubSeq(fs, 1, bad - 1), "act"))
                     /\ tpc' = "raised"
                     /\ UNCHANGED <<tform, acted>>
                ELSE \E kept \in KeptSets(n) :
                     LET b1 == add_all_to(branches, b, turn_requests(fs, "act"))
                         b2 == process_action_request(b1, b, fs, kept, "act")
                         action_responses == last_messages(b2[b], n)
                     IN  /\ branches' = b2
                         /\ acted' = TRUE
                         /\ IF all_action_responses(action_responses)
                            THEN /\ tform' = [tform EXCEPT
                                                !.action_response = action_responses,
                                                !.action_performed = TRUE]
                                 /\ tpc' = "extend"
                            ELSE /\ tpc' = "raised"
                                 /\ UNCHANGED tform
       ELSE /\ tpc' = "extend"
            /\ UNCHANGED <<branches, tform, acted>>
    /\ UNCHANGED tcfg
    /\ UNCHANGED <<rvars, bvars, fvars, dvars, cvars, xvars, pvars>>

\* The extension loop (lines 661-686): _extend hands no branch to _direct
\* (lines 747-762, 780), so the nested call works on self.branch.
TurnExtend ==
    /\ tpc = "extend"
    /\ IF tcfg.allow_extension /\ ~tform.none /\ tform.extension_required
       THEN branches' = add_to(add_to(branches, "default",
                                      Msg("instruction", 0, "-", "extension")),
                               "default", Msg("assistant_response", 0, "-", "extension"))
       ELSE UNCHANGED branches
    /\ tpc' = "final"
    /\ UNCHANGED <<tcfg, tform, acted>>
    /\ UNCHANGED <<rvars, bvars, fvars, dvars, cvars, xvars, pvars>>

\* Lines 693-699: `form.answer` fails on a form that is None; the follow-up
\* _chat for the sentinel is called without a branch.
TurnFinal ==
    /\ tpc = "final"
    /\ IF tform.none
       THEN /\ tpc' = "raised"
            /\ UNCHANGED <<branches, tform>>
       ELSE /\ tpc' = "done"
            /\ IF tform.sentinel
               THEN /\ branches' = add_to(add_to(branches, "default",
                                                 Msg("instruction", 0, "-", "followup")),
                                          "default",
                                          Msg("assistant_response", 0, "-", "followup"))
                    /\ tform' = [tform EXCEPT !.answer = "followup"]
               ELSE UNCHANGED <<branches, tform>>
    /\ UNCHANGED <<tcfg, acted>>
    /\ UNCHANGED <<rvars, bvars, fvars, dvars, cvars, xvars, pvars>>

TurnNext ==
    \/ TurnChat
    \/ TurnAct
    \/ TurnExtend
    \/ TurnFinal

InitTurn == RIdle /\ BIdle /\ FIdle /\ DIdle /\ CIdle /\ XIdle /\ PIdle /\ TInit

SpecTurn == InitTurn /\ [][TurnNext]_vars

\* The branch of the call.
TurnBranch == branches[branch_or_default(tcfg.explicit_branch)]

RequestRecords(msgs, k) ==
    {i \in DOMAIN msgs : msgs[i].kind = "action_request" /\ msgs[i].idx = k}

C37_RequestRecordedOnce ==
    tcfg.mode = "turn" =>
        \A b \in {"given", "default"} : \A k \in 1..MaxActs :
            Cardinality(RequestRecords(branches[b], k)) <= 1

(***************************************************************************)
(* C38. When the caller passes an explicit branch, every message of the    *)
(* turn (instruction, assistant response, action requests and responses,   *)
(* extension cycles, sentinel follow-up) is appended to that branch and    *)
(* the directive's own default branch is left unchanged.                   *)
(***************************************************************************)
C38_ExplicitBranchGetsAll ==
    (tcfg.mode = "turn" /\ tcfg.explicit_branch) => branches.default = <<>>

Init == RInit /\ BIdle /\ FIdle /\ DIdle /\ CIdle /\ XIdle /\ PIdle /\ TIdle

Next ==
    \/ TCall
    \/ RCallAttempt

Spec == Init /\ [][Next]_vars

====
